---- MODULE Spec2Model ----
(***************************************************************************)
(* Model of cueckoo's CL trigger engine (cmd/cueckoo/cmd/cltrigger.go and  *)
(* runtrybot.go): resolution of command-line arguments into revisions,     *)
(* the skip-if-already-approved policy and the concurrent fan-out of       *)
(* repository-dispatch requests with aggregated errors.                    *)
(*                                                                         *)
(* Strings whose characters the code inspects (arguments, git output,      *)
(* commit bodies, change IDs) are sequences of one-character strings.      *)
(* Commit hashes inside Gerrit answers, refs and branch names are only     *)
(* compared or copied by the code and are sequences as well.               *)
(***************************************************************************)
EXTENDS Integers, Sequences, FiniteSets, TLC

\* ------------------------------------------------------------------------
\* Bounds of the model
\* ------------------------------------------------------------------------

\* longest argument list of the resolution-focused initial states
MaxArgs == 2

\* most pending commits (branchpoint..HEAD) of the resolution-focused states
MaxPending == 2

\* most revisions fanned out in the dispatch-focused initial states
MaxRevs == 3

\* ------------------------------------------------------------------------
\* Characters and string helpers (Go's strings package)
\* ------------------------------------------------------------------------

NUL == "\\0"
LF == "\n"
SP == " "

Digits == {"0", "1", "2", "3", "4", "5", "6", "7", "8", "9"}

HexLower == Digits \cup {"a", "b", "c", "d", "e", "f"}

Letters ==
    {"a", "b", "c", "d", "e", "f", "g", "h", "i", "j", "k", "l", "m", "n",
     "o", "p", "q", "r", "s", "t", "u", "v", "w", "x", "y", "z",
     "A", "B", "C", "D", "E", "F", "G", "H", "I", "J", "K", "L", "M", "N",
     "O", "P", "Q", "R", "S", "T", "U", "V", "W", "X", "Y", "Z"}

\* the n-fold repetition of the character c
RECURSIVE Rep(_, _)
Rep(c, n) == IF n = 0 THEN <<>> ELSE <<c>> \o Rep(c, n - 1)

Drop(s, n) == SubSeq(s, n + 1, Len(s))

HasPrefix(s, p) == Len(s) >= Len(p) /\ SubSeq(s, 1, Len(p)) = p

\* index of the first occurrence of character c in s at or after i, 0 if none
RECURSIVE IndexFrom(_, _, _)
IndexFrom(s, c, i) ==
    IF i > Len(s) THEN 0
    ELSE IF s[i] = c THEN i
    ELSE IndexFrom(s, c, i + 1)

\* strings.Split(s, sep) for a one-character separator
RECURSIVE Split(_, _)
Split(s, sep) ==
    LET i == IndexFrom(s, sep, 1)
    IN  IF i = 0 THEN <<s>>
        ELSE <<SubSeq(s, 1, i - 1)>> \o Split(Drop(s, i), sep)

\* strings.SplitN(s, sep, 2)
SplitN2(s, sep) ==
    LET i == IndexFrom(s, sep, 1)
    IN  IF i = 0 THEN <<s>>
        ELSE <<SubSeq(s, 1, i - 1), Drop(s, i)>>

IsSpace(c) == c \in {SP, LF, "\t", "\r"}

RECURSIVE TrimLeft(_)
TrimLeft(s) ==
    IF s # <<>> /\ IsSpace(s[1]) THEN TrimLeft(Tail(s)) ELSE s

RECURSIVE TrimRight(_)
TrimRight(s) ==
    IF s # <<>> /\ IsSpace(s[Len(s)])
    THEN TrimRight(SubSeq(s, 1, Len(s) - 1)) ELSE s

TrimSpace(s) == TrimRight(TrimLeft(s))

TrimPrefix(s, p) == IF HasPrefix(s, p) THEN Drop(s, Len(p)) ELSE s

RECURSIVE Join(_, _)
Join(ss, sep) ==
    IF ss = <<>> THEN <<>>
    ELSE IF Len(ss) = 1 THEN ss[1]
    ELSE ss[1] \o sep \o Join(Tail(ss), sep)

\* net/url.PathEscape: a byte is kept when it is unreserved or one of the
\* characters allowed in a path segment; every other byte becomes %XX
PathSegmentSafe ==
    Letters \cup Digits \cup {"-", "_", ".", "~", "$", "&", "+", "=", ":", "@"}

PercentCode(c) ==
    CASE c = "/" -> <<"%", "2", "F">>
      [] c = SP -> <<"%", "2", "0">>
      [] c = "%" -> <<"%", "2", "5">>
      [] c = "?" -> <<"%", "3", "F">>
      [] c = ";" -> <<"%", "3", "B">>
      [] c = "," -> <<"%", "2", "C">>
      [] c = LF -> <<"%", "0", "A">>
      [] OTHER -> <<"%", "X", "X">>

\* PathEscape that escapes nothing
PathEscapeNone(s) == s

RECURSIVE PathEscape(_)
PathEscape(s) ==
    IF s = <<>> THEN <<>>
    ELSE (IF s[1] \in PathSegmentSafe THEN <<s[1]>> ELSE PercentCode(s[1]))
         \o PathEscape(Tail(s))

\* ------------------------------------------------------------------------
\* Errors
\* ------------------------------------------------------------------------

\* An error is its message text; fixed parts of a message are single tokens
\* (none contains a percent sign). Go's nil error is the empty text.
nil == <<>>

\* the %q form of a string made of characters that need no escaping
Quote(s) == <<"\"">> \o s \o <<"\"">>

\* fmt.Errorf(format) with no operands, as triggerBuilds calls it: a percent
\* sign starts a verb (after optional flags, width and precision); %% prints
\* a percent sign, any other verb has no operand and prints %!v(MISSING), a
\* percent sign at the very end prints %!(NOVERB)
RECURSIVE verbAt(_, _)
verbAt(f, i) ==
    IF i <= Len(f) /\ f[i] \in (Digits \cup {"#", "+", "-", SP, "."})
    THEN verbAt(f, i + 1) ELSE i

RECURSIVE Errorf(_)
Errorf(f) ==
    IF f = <<>> THEN <<>>
    ELSE IF f[1] # "%" THEN <<f[1]>> \o Errorf(Tail(f))
    ELSE LET v == verbAt(f, 2)
         IN  IF v > Len(f) THEN <<"%", "!", "(NOVERB)">>
             ELSE IF f[v] = "%" THEN <<"%">> \o Errorf(Drop(f, v))
             ELSE <<"%", "!", f[v], "(MISSING)">> \o Errorf(Drop(f, v))

\* ------------------------------------------------------------------------
\* Mode selection: rxChangeID and the scan of the arguments in run
\* ------------------------------------------------------------------------

HEAD == <<"H", "E", "A", "D">>

\* first alternative of rxChangeID: ^[1-9][0-9]{3,}  (anchored at the start
\* only, so any text may follow the four digits)
rxCLNumber(s) ==
    /\ Len(s) >= 4
    /\ s[1] \in Digits \ {"0"}
    /\ \A i \in 2..4 : s[i] \in Digits

\* second alternative of rxChangeID: I[0-9a-f]{40}$  (anchored at the end
\* only, so any text may precede the I)
rxChangeIDTrailer(s) ==
    /\ Len(s) >= 41
    /\ s[Len(s) - 40] = "I"
    /\ \A i \in (Len(s) - 39)..Len(s) : s[i] \in HexLower

\* rxChangeID.MatchString(s)
rxChangeID(s) == rxCLNumber(s) \/ rxChangeIDTrailer(s)

\* the loop at the head of run: "mix" when a non-ID argument follows an ID,
\* else "derive" when no argument is an ID, else "explicit"
RECURSIVE scanArgs(_, _, _)
scanArgs(as, i, derive) ==
    IF i > Len(as) THEN (IF derive THEN "derive" ELSE "explicit")
    ELSE IF rxChangeID(as[i]) THEN scanArgs(as, i + 1, FALSE)
    ELSE IF ~derive THEN "mix"
    ELSE scanArgs(as, i + 1, derive)

slicesContains(s, v) == \E i \in 1..Len(s) : s[i] = v

\* ------------------------------------------------------------------------
\* Commits and the git command line
\* ------------------------------------------------------------------------

\* the result of run(ctx, "git", ...): the output is "" when err is set
GitOK(out) == [err |-> FALSE, out |-> out]
GitFail == [err |-> TRUE, out |-> <<>>]

\* what `git log -z --pretty=format:%H %B --no-patch` prints for commits cs
GitLogFormat(cs) ==
    Join([i \in 1..Len(cs) |-> cs[i].hash \o <<SP>> \o cs[i].body], <<NUL>>)

\* resolveCommits, given the result r of the git log command
resolveCommits(r) ==
    IF r.err THEN [err |-> <<"failed to run git log">>, commits |-> <<>>]
    ELSE IF r.out = <<>>
    THEN [err |-> <<"resulted in no git commits">>, commits |-> <<>>]
    ELSE LET commitList == Split(r.out, NUL)
             parts(i) == SplitN2(commitList[i], SP)
         IN  [err |-> nil,
              commits |-> [i \in 1..Len(commitList) |->
                              [hash |-> parts(i)[1], body |-> parts(i)[2]]]]

ChangeIdKey == <<"C", "h", "a", "n", "g", "e", "-", "I", "d", ":", " ">>

\* changeIDRegex.FindAllStringSubmatch(msg, -1): (?m)^Change-Id: (.*)$
\* matches once in every line that starts with the key; the submatch is the
\* rest of that line
RECURSIVE trailerMatches(_)
trailerMatches(lines) ==
    IF lines = <<>> THEN <<>>
    ELSE (IF HasPrefix(lines[1], ChangeIdKey)
          THEN <<Drop(lines[1], Len(ChangeIdKey))>> ELSE <<>>)
         \o trailerMatches(Tail(lines))

changeIDRegex(msg) == trailerMatches(Split(msg, LF))

\* getChangeIDFromCommitMsg that takes the first match of several
getChangeIDFirstMatch(msg) ==
    LET matches == changeIDRegex(msg)
    IN  IF Len(matches) < 1
        THEN [err |-> <<"failed to find Change-Id in commit message">>,
              id |-> <<>>]
        ELSE [err |-> nil, id |-> matches[1]]

getChangeIDFromCommitMsg(msg) ==
    LET matches == changeIDRegex(msg)
    IN  IF Len(matches) # 1
        THEN [err |-> <<"failed to find Change-Id in commit message">>,
              id |-> <<>>]
        ELSE [err |-> nil, id |-> matches[1]]

\* ------------------------------------------------------------------------
\* The inputs the initial states draw from
\* ------------------------------------------------------------------------

\* arguments that are change IDs
CL1234 == <<"1", "2", "3", "4">>
CL5678 == <<"5", "6", "7", "8">>
CL9012 == <<"9", "0", "1", "2">>
ChangeIdA == <<"I">> \o Rep("a", 40)

\* arguments that are git refs: three hashes, a tag, an unknown name and a
\* name for which git log prints two commits
RefC1 == <<"c", "1">>
RefC2 == <<"c", "2">>
RefC9 == <<"c", "9">>
RefT1 == <<"t", "1">>
RefX == <<"x">>
RefM == <<"m">>

\* a commit message with the trailer Change-Id: id; the second line mentions
\* the key in the middle of a line, where the regexp does not match
BodyWith(id) ==
    <<"f", "i", "x", LF, "s", "e", "e", SP>> \o ChangeIdKey \o <<"I", "0", LF, LF>>
    \o ChangeIdKey \o id \o <<LF>>

BodyNoTrailer == <<"w", "i", "p", LF>>

K1 == [hash |-> RefC1, body |-> BodyWith(<<"I", "1", "2", "3", "4">>)]
K2 == [hash |-> RefC2, body |-> BodyWith(<<"I", "5", "6", "7", "8">>)]
K3 == [hash |-> <<"c", "3">>, body |-> BodyWith(<<"I", "9", "9">>)]
K4 == [hash |-> <<"c", "4">>, body |-> BodyWith(<<"I", "4", "4">>)]
K9 == [hash |-> RefC9, body |-> BodyNoTrailer]

\* a commit message that carries two Change-Id trailers
BodyTwoTrailers ==
    <<"d", "u", "p", LF, LF>> \o ChangeIdKey \o <<"I", "7", "7", LF>>
    \o ChangeIdKey \o <<"I", "8", "8", LF>>

K8 == [hash |-> <<"c", "8">>, body |-> BodyTwoTrailers]

\* all sequences over S of length at most n
SeqUpTo(S, n) == UNION {[1..k -> S] : k \in 0..n}

Distinct(q) == \A i, j \in 1..Len(q) : i # j => q[i] # q[j]

Prefix(q, n) == SubSeq(q, 1, n)

\* what git log -1 answers for each ref of the working copy
LogOneTable ==
    (RefC1 :> GitOK(GitLogFormat(<<K1>>)))
    @@ (RefT1 :> GitOK(GitLogFormat(<<K1>>)))
    @@ (RefC2 :> GitOK(GitLogFormat(<<K2>>)))
    @@ (RefC9 :> GitOK(GitLogFormat(<<K9>>)))
    @@ (RefX :> GitFail)
    @@ (RefM :> GitOK(GitLogFormat(<<K1, K2>>)))

\* ------------------------------------------------------------------------
\* State
\* ------------------------------------------------------------------------

VARIABLES
    args,        \* c.cmd.Flags().Args(): the command-line arguments
    flags,       \* the boolean flags: [force, nounity, change]
    cfg,         \* the loaded config: githubOwner, githubRepo, unityRepo
    git,         \* what the git commands answer in this working copy
    gerrit,      \* the review server: changeID -> ChangeInfo of known changes
    github,      \* the answers the dispatch endpoint may give in this run
    pc,          \* position of run/triggerBuilds: start, spawn, wait, done
    revs,        \* the resolved revisions handed to triggerBuilds
    gitCalls,    \* the git commands executed so far, in order
    runErr,      \* the error run returns (nil while running or on success)
    next,        \* index of the next goroutine the loop of triggerBuilds starts
    wg,          \* the WaitGroup counter
    tpc,         \* per goroutine: idle, get, primary, secondary, add, locked,
                 \* signal, finished
    terr,        \* per goroutine: its local variable err
    lookups,     \* per goroutine: number of GetChange calls made
    sent,        \* per goroutine: the dispatch requests made, in order, each
                 \* with the answer of the endpoint
    mu,          \* errorList.mu: 0 when free, else the goroutine holding it
    errs,        \* errorList.errs
    held         \* per goroutine: the slice value read by append under the lock

vars ==
    <<args, flags, cfg, git, gerrit, github, pc, revs, gitCalls, runErr, next,
      wg, tpc, terr, lookups, sent, mu, errs, held>>

env == <<args, flags, cfg, git, gerrit, github>>

\* ------------------------------------------------------------------------
\* deriveChangeIDs
\* ------------------------------------------------------------------------

\* git log -1 h; it fails for a name h the working copy does not have
gitLogOne(h) == IF h \in DOMAIN LogOneTable THEN LogOneTable[h] ELSE GitFail

\* addRevision that leaves the revision hash empty
addRevisionNoHash(pc_, res, calls) ==
    LET cid == getChangeIDFromCommitMsg(pc_.body)
    IN  IF cid.err # nil
        THEN [err |-> <<"failed to derive change ID: ">> \o cid.err,
              res |-> res, calls |-> calls]
        ELSE [err |-> nil,
              res |-> Append(res, [changeID |-> cid.id, revision |-> <<>>]),
              calls |-> Append(calls, "rev-parse")]

\* the closure addRevision: appends the revision of pending commit pc_ to res;
\* calls lists the git commands run so far
addRevision(pc_, res, calls) ==
    LET cid == getChangeIDFromCommitMsg(pc_.body)
        targetBranch == TrimPrefix(TrimSpace(git.upstream.out),
                                   <<"o", "r", "i", "g", "i", "n", "/">>)
        changeID ==
            IF targetBranch # <<>>
            THEN PathEscape(cfg.githubOwner \o <<"/">> \o cfg.githubRepo
                            \o <<"~">> \o targetBranch \o <<"~">> \o cid.id)
            ELSE cid.id
    IN  IF cid.err # nil
        THEN [err |-> <<"failed to derive change ID: ">> \o cid.err,
              res |-> res, calls |-> calls]
        ELSE [err |-> nil,
              res |-> Append(res, [changeID |-> changeID, revision |-> pc_.hash]),
              calls |-> Append(calls, "rev-parse")]

\* verifyAll that stops after the commit at HEAD
verifyAllHeadOnly(pcs, i, res, calls) ==
    LET r == addRevision(pcs[1], res, calls)
    IN  IF r.err # nil THEN [err |-> r.err, res |-> <<>>, calls |-> r.calls]
        ELSE [err |-> nil, res |-> r.res, calls |-> r.calls]

\* the "Verify all" loop: one revision per pending commit, from index i on
RECURSIVE verifyAll(_, _, _, _)
verifyAll(pcs, i, res, calls) ==
    IF i > Len(pcs) THEN [err |-> nil, res |-> res, calls |-> calls]
    ELSE LET r == addRevision(pcs[i], res, calls)
         IN  IF r.err # nil THEN [err |-> r.err, res |-> <<>>, calls |-> r.calls]
             ELSE verifyAll(pcs, i + 1, r.res, r.calls)

\* index of the pending commit with hash h, 0 if there is none
RECURSIVE pendingIndex(_, _, _)
pendingIndex(pcs, h, i) ==
    IF i > Len(pcs) THEN 0
    ELSE IF pcs[i].hash = h THEN i
    ELSE pendingIndex(pcs, h, i + 1)

\* resolvedOne that takes the first commit of any non-empty answer
resolvedAny(rc) == rc.err = nil /\ Len(rc.commits) >= 1

\* the guard of EachArg: git log -1 gave exactly one commit
resolvedOne(rc) == rc.err = nil /\ Len(rc.commits) = 1

\* alreadySeen without the seen map
neverSeen(seen, h) == FALSE

\* seen[commit.hash]
alreadySeen(seen, h) == h \in seen

\* the EachArg loop from argument i on; seen is the set of hashes handled
RECURSIVE eachArg(_, _, _, _, _, _)
eachArg(as, i, pcs, seen, res, calls) ==
    IF i > Len(as) THEN [err |-> nil, res |-> res, calls |-> calls]
    ELSE
      LET h == as[i]
          rc == resolveCommits(gitLogOne(h))
          calls1 == Append(calls, "log -1")
          k == pendingIndex(pcs, rc.commits[1].hash, 1)
          r == addRevision(pcs[k], res, calls1)
      IN  IF ~resolvedOne(rc)
          THEN [err |-> <<"failed to resolve revision ">> \o Quote(h),
                res |-> <<>>, calls |-> calls1]
          ELSE IF alreadySeen(seen, rc.commits[1].hash)
          THEN eachArg(as, i + 1, pcs, seen, res, calls1)
          ELSE IF k = 0
          THEN [err |-> <<"commit ">> \o h \o <<" is not a pending commit">>,
                res |-> <<>>, calls |-> calls1]
          ELSE IF r.err # nil
          THEN [err |-> r.err, res |-> <<>>, calls |-> r.calls]
          ELSE eachArg(as, i + 1, pcs, seen \cup {rc.commits[1].hash},
                       r.res, r.calls)

\* HEAD together with other arguments
headNotAlone(argHead, nArgs) == argHead /\ nArgs > 1

\* mustSpecifyCommits that tolerates two pending commits
mustSpecifyCommitsLax(argHead, nPending, nArgs) ==
    ~argHead /\ nPending > 2 /\ nArgs = 0

\* several pending commits and no argument to choose among them
mustSpecifyCommits(argHead, nPending, nArgs) ==
    ~argHead /\ nPending > 1 /\ nArgs = 0

\* HEAD, or the single pending commit when there is no argument
verifyAllCommits(argHead, nPending, nArgs) ==
    argHead \/ (nArgs = 0 /\ nPending = 1)

deriveChangeIDs(as) ==
    LET pend == resolveCommits(git.logPending)
        argHead == slicesContains(as, HEAD)
    IN  IF git.branchpoint.err
        THEN [err |-> <<"failed to run git codereview branchpoint">>,
              res |-> <<>>, calls |-> <<"branchpoint">>]
        ELSE IF pend.err # nil
        THEN [err |-> pend.err, res |-> <<>>, calls |-> <<"branchpoint", "log">>]
        ELSE IF Len(pend.commits) = 0
        THEN [err |-> <<"no pending commits">>,
              res |-> <<>>, calls |-> <<"branchpoint", "log">>]
        ELSE IF headNotAlone(argHead, Len(as))
        THEN [err |-> <<"HEAD can only be supplied as an argument by itself">>,
              res |-> <<>>, calls |-> <<"branchpoint", "log">>]
        ELSE IF mustSpecifyCommits(argHead, Len(pend.commits), Len(as))
        THEN [err |-> <<"must specify commits as arguments or use HEAD for everything">>,
              res |-> <<>>, calls |-> <<"branchpoint", "log">>]
        ELSE IF verifyAllCommits(argHead, Len(pend.commits), Len(as))
        THEN verifyAll(pend.commits, 1, <<>>, <<"branchpoint", "log">>)
        ELSE eachArg(as, 1, pend.commits, {}, <<>>, <<"branchpoint", "log">>)

\* explicitRevisions that stores the argument as the revision hash
explicitRevisionsAsHash(as) ==
    [i \in 1..Len(as) |-> [changeID |-> as[i], revision |-> as[i]]]

\* the else branch of run: one revision per argument, no hash
explicitRevisions(as) ==
    [i \in 1..Len(as) |-> [changeID |-> as[i], revision |-> <<>>]]

\* the resolution part of run: everything up to the call of triggerBuilds
resolve(as) ==
    LET mode == scanArgs(as, 1, TRUE)
    IN  IF mode = "mix"
        THEN [err |-> <<"cannot mix change IDs and git refs">>,
              res |-> <<>>, calls |-> <<>>]
        ELSE IF mode = "derive" THEN deriveChangeIDs(as)
        ELSE IF Len(as) = 0
        THEN [err |-> <<"must provide at least one change number of ID">>,
              res |-> <<>>, calls |-> <<>>]
        ELSE [err |-> nil,
              res |-> explicitRevisions(as),
              calls |-> <<>>]

\* ------------------------------------------------------------------------
\* triggerBuild: lookup, choice of the revision, skip policy, payload
\* ------------------------------------------------------------------------

TryBotResult == "TryBot-Result"

\* GetChange fails for a change the review server does not know
getChangeFails(rev) == rev.changeID \notin DOMAIN gerrit

\* commitOf that always takes the current revision of the change
commitOfCurrentAlways(rev, in) == in.CurrentRevision

\* the variable commit of triggerBuild: the requested hash, or the current
\* revision of the change when none was requested
commitOf(rev, in) ==
    IF rev.revision = <<>> THEN in.CurrentRevision ELSE rev.revision

\* skipBuild that does not ask for the current revision
skipBuildAnyRevision(rev, in) ==
    /\ ~flags.force
    /\ TryBotResult \in DOMAIN in.Labels
    /\ \E k \in 1..Len(in.Labels[TryBotResult]) :
          in.Labels[TryBotResult][k] = 1

\* skipBuild whose guard reads isCurrent || !force
skipBuildForceOrCurrent(rev, in) ==
    /\ rev.revision = in.CurrentRevision \/ ~flags.force
    /\ TryBotResult \in DOMAIN in.Labels
    /\ \E k \in 1..Len(in.Labels[TryBotResult]) :
          in.Labels[TryBotResult][k] = 1

\* skipBuild that does not look at --force
skipBuildIgnoringForce(rev, in) ==
    /\ rev.revision = in.CurrentRevision
    /\ TryBotResult \in DOMAIN in.Labels
    /\ \E k \in 1..Len(in.Labels[TryBotResult]) :
          in.Labels[TryBotResult][k] = 1

\* the skip test: the requested revision is the current one, --force is not
\* set, and the TryBot-Result label has a vote of 1
skipBuild(rev, in) ==
    LET isCurrent == rev.revision = in.CurrentRevision
    IN  /\ isCurrent
        /\ ~flags.force
        /\ TryBotResult \in DOMAIN in.Labels
        /\ \E k \in 1..Len(in.Labels[TryBotResult]) :
              in.Labels[TryBotResult][k] = 1

\* payloadOf that describes the current revision of the change
payloadOfCurrent(rev, in) ==
    LET revision == in.Revisions[in.CurrentRevision]
    IN  [Type |-> "",
         CL |-> in.Number,
         Patchset |-> revision.Number,
         TargetBranch |-> in.Branch,
         Ref |-> revision.Ref]

\* the payload handed to the builder
payloadOf(rev, in) ==
    LET revision == in.Revisions[commitOf(rev, in)]
    IN  [Type |-> "",
         CL |-> in.Number,
         Patchset |-> revision.Number,
         TargetBranch |-> in.Branch,
         Ref |-> revision.Ref]

\* triggerBuild that treats a failed GetChange as nothing to do
triggerBuildSwallowsLookup(rev) ==
    IF getChangeFails(rev)
    THEN [do |-> "skip", err |-> nil]
    ELSE LET in == gerrit[rev.changeID]
             commit == commitOf(rev, in)
         IN  IF commit \notin DOMAIN in.Revisions
             THEN [do |-> "fail",
                   err |-> <<"change ">> \o Quote(rev.changeID)
                           \o <<" does not know about revision ">>
                           \o Quote(commit)
                           \o <<"; did you forget to run git codereview mail?">>]
             ELSE IF skipBuild(rev, in)
             THEN [do |-> "skip", err |-> nil]
             ELSE [do |-> "build", err |-> nil]

\* triggerBuild up to the call of the builder: what the goroutine does once
\* GetChange has answered
triggerBuild(rev) ==
    IF getChangeFails(rev)
    THEN [do |-> "fail",
          err |-> <<"failed to get current revision information: ",
                    "change not found">>]
    ELSE LET in == gerrit[rev.changeID]
             commit == commitOf(rev, in)
         IN  IF commit \notin DOMAIN in.Revisions
             THEN [do |-> "fail",
                   err |-> <<"change ">> \o Quote(rev.changeID)
                           \o <<" does not know about revision ">>
                           \o Quote(commit)
                           \o <<"; did you forget to run git codereview mail?">>]
             ELSE IF skipBuild(rev, in)
             THEN [do |-> "skip", err |-> nil]
             ELSE [do |-> "build", err |-> nil]

\* the decimal digits of a natural number, as %v prints it
RECURSIVE Itoa(_)
Itoa(n) ==
    LET d == <<"0", "1", "2", "3", "4", "5", "6", "7", "8", "9">>[(n % 10) + 1]
    IN  IF n < 10 THEN <<d>> ELSE Itoa(n \div 10) \o <<d>>

\* dispatchError that only looks at the transport error
dispatchErrorStatusBlind(a) ==
    IF a.err THEN <<"failed to send dispatch event: ", "transport error">>
    ELSE nil

\* config.triggerRepositoryDispatch: the error for answer a of the endpoint;
\* a response that is not 2xx is reported with its status code and its body
dispatchError(a) ==
    IF a.err THEN <<"failed to send dispatch event: ", "transport error">>
    ELSE IF a.StatusCode \div 100 # 2
    THEN <<"dispatch call did not succeed; status code ">>
         \o Itoa(a.StatusCode) \o <<LF>> \o a.Body
    ELSE nil

\* one call of the dispatch endpoint: the request and the answer it got
delivery(req, a) ==
    [owner |-> req.owner, repo |-> req.repo, payload |-> req.payload,
     answer |-> a]

\* the request the builder of runtrybotDef sends to target t
requestOf(rev, t) ==
    LET payload == payloadOf(rev, gerrit[rev.changeID])
    IN  IF t = "trybot"
        THEN [owner |-> cfg.githubOwner, repo |-> cfg.githubRepo,
              payload |-> [payload EXCEPT !.Type = "trybot"]]
        ELSE [owner |-> cfg.unityOwner, repo |-> cfg.unityRepo,
              payload |-> [payload EXCEPT !.Type = "unity"]]

\* wantUnity that does not look at --nounity
wantUnityIgnoringFlag == cfg.unityRepo # <<>>

\* the builder goes on to the unity repository
wantUnity == cfg.unityRepo # <<>> /\ ~flags.nounity

\* ------------------------------------------------------------------------
\* Actions
\* ------------------------------------------------------------------------

Tasks == 1..Len(revs)

\* Run that notes a resolution error and goes on with the explicit branch
RunIgnoringError ==
    /\ pc = "start"
    /\ \E r \in {resolve(args)} :
           /\ gitCalls' = r.calls
           /\ runErr' = r.err
           /\ \E rs \in {IF r.err # nil THEN explicitRevisions(args) ELSE r.res} :
                 /\ revs' = rs
                 /\ pc' = "builds"
                 /\ tpc' = [i \in 1..Len(rs) |-> "idle"]
                 /\ terr' = [i \in 1..Len(rs) |-> nil]
                 /\ lookups' = [i \in 1..Len(rs) |-> 0]
                 /\ sent' = [i \in 1..Len(rs) |-> <<>>]
                 /\ held' = [i \in 1..Len(rs) |-> <<>>]
    /\ UNCHANGED <<env, next, wg, mu, errs>>

\* run, up to the point where triggerBuilds starts its loop (or run returns
\* the resolution error)
Run ==
    /\ pc = "start"
    /\ \E r \in {resolve(args)} :
           /\ gitCalls' = r.calls
           /\ IF r.err # nil
              THEN /\ runErr' = r.err
                   /\ revs' = <<>>
                   /\ pc' = "done"
                   /\ UNCHANGED <<tpc, terr, lookups, sent, held>>
              ELSE /\ runErr' = nil
                   /\ revs' = r.res
                   /\ pc' = "builds"
                   /\ tpc' = [i \in 1..Len(r.res) |-> "idle"]
                   /\ terr' = [i \in 1..Len(r.res) |-> nil]
                   /\ lookups' = [i \in 1..Len(r.res) |-> 0]
                   /\ sent' = [i \in 1..Len(r.res) |-> <<>>]
                   /\ held' = [i \in 1..Len(r.res) |-> <<>>]
    /\ UNCHANGED <<env, next, wg, mu, errs>>

\* one iteration of the loop of triggerBuilds: wg.Add(1); go func() {...}()
Spawn ==
    /\ pc = "builds"
    /\ next <= Len(revs)
    /\ wg' = wg + 1
    /\ tpc' = [tpc EXCEPT ![next] = "get"]
    /\ next' = next + 1
    /\ UNCHANGED <<env, pc, revs, gitCalls, runErr, terr, lookups, sent, mu,
                   errs, held>>

\* GetChange that gives up, without a lookup, once another goroutine failed
GetChangeFailFast(i) ==
    /\ tpc[i] = "get"
    /\ IF \E k \in Tasks : terr[k] # nil
       THEN /\ tpc' = [tpc EXCEPT ![i] = "add"]
            /\ UNCHANGED <<terr, lookups>>
       ELSE /\ lookups' = [lookups EXCEPT ![i] = @ + 1]
            /\ \E r \in {triggerBuild(revs[i])} :
                  /\ terr' = [terr EXCEPT ![i] = r.err]
                  /\ tpc' = [tpc EXCEPT ![i] = IF r.do = "build" THEN "primary"
                                                ELSE "add"]
    /\ UNCHANGED <<env, pc, revs, gitCalls, runErr, next, wg, sent, mu, errs,
                   held>>

\* goroutine i: GetChange and the local steps of triggerBuild that follow it
GetChange(i) ==
    /\ tpc[i] = "get"
    /\ lookups' = [lookups EXCEPT ![i] = @ + 1]
    /\ LET r == triggerBuild(revs[i])
       IN  /\ terr' = [terr EXCEPT ![i] = r.err]
           /\ tpc' = [tpc EXCEPT ![i] = IF r.do = "build" THEN "primary"
                                         ELSE "add"]
    /\ UNCHANGED <<env, pc, revs, gitCalls, runErr, next, wg, sent, mu, errs,
                   held>>

\* DispatchTrybot that goes on to the unity repository after a failure too
DispatchTrybotThenUnity(i) ==
    /\ tpc[i] = "primary"
    /\ \E a \in github :
          /\ sent' = [sent EXCEPT ![i] =
                        Append(@, delivery(requestOf(revs[i], "trybot"), a))]
          /\ terr' = [terr EXCEPT ![i] = dispatchError(a)]
          /\ tpc' = [tpc EXCEPT ![i] = IF wantUnity THEN "secondary" ELSE "add"]
    /\ UNCHANGED <<env, pc, revs, gitCalls, runErr, next, wg, lookups, mu,
                   errs, held>>

\* goroutine i: the builder dispatches to the trybot repository
DispatchTrybot(i) ==
    /\ tpc[i] = "primary"
    /\ \E a \in github :
          /\ sent' = [sent EXCEPT ![i] =
                        Append(@, delivery(requestOf(revs[i], "trybot"), a))]
          /\ terr' = [terr EXCEPT ![i] = dispatchError(a)]
          /\ tpc' = [tpc EXCEPT ![i] =
                        IF dispatchError(a) = nil /\ wantUnity
                        THEN "secondary" ELSE "add"]
    /\ UNCHANGED <<env, pc, revs, gitCalls, runErr, next, wg, lookups, mu,
                   errs, held>>

\* goroutine i: the builder dispatches to the unity repository
DispatchUnity(i) ==
    /\ tpc[i] = "secondary"
    /\ \E a \in github :
          /\ sent' = [sent EXCEPT ![i] =
                        Append(@, delivery(requestOf(revs[i], "unity"), a))]
          /\ terr' = [terr EXCEPT ![i] = dispatchError(a)]
          /\ tpc' = [tpc EXCEPT ![i] = "add"]
    /\ UNCHANGED <<env, pc, revs, gitCalls, runErr, next, wg, lookups, mu,
                   errs, held>>

\* goroutine i: errs.Add(&err) with a nil error returns at once
AddNil(i) ==
    /\ tpc[i] = "add"
    /\ terr[i] = nil
    /\ tpc' = [tpc EXCEPT ![i] = "signal"]
    /\ UNCHANGED <<env, pc, revs, gitCalls, runErr, next, wg, terr, lookups,
                   sent, mu, errs, held>>

\* muFree of an error list without mutex
muNotUsed == TRUE

\* the mutex of the error list can be taken
muFree == mu = 0

\* goroutine i: errs.Add(&err) takes the mutex; append reads the slice
AddLock(i) ==
    /\ tpc[i] = "add"
    /\ terr[i] # nil
    /\ muFree
    /\ mu' = i
    /\ held' = [held EXCEPT ![i] = errs]
    /\ tpc' = [tpc EXCEPT ![i] = "locked"]
    /\ UNCHANGED <<env, pc, revs, gitCalls, runErr, next, wg, terr, lookups,
                   sent, errs>>

\* goroutine i: append stores the extended slice; the mutex is released
AddAppend(i) ==
    /\ tpc[i] = "locked"
    /\ errs' = Append(held[i], terr[i])
    /\ mu' = IF mu = i THEN 0 ELSE mu
    /\ held' = [held EXCEPT ![i] = <<>>]
    /\ tpc' = [tpc EXCEPT ![i] = "signal"]
    /\ UNCHANGED <<env, pc, revs, gitCalls, runErr, next, wg, terr, lookups,
                   sent>>

\* Done that is skipped by a goroutine that ends with an error
DoneOnlyOnSuccess(i) ==
    /\ tpc[i] = "signal"
    /\ terr[i] = nil
    /\ wg' = wg - 1
    /\ tpc' = [tpc EXCEPT ![i] = "finished"]
    /\ UNCHANGED <<env, pc, revs, gitCalls, runErr, next, mu, terr, lookups,
                   sent, errs, held>>

\* goroutine i: the deferred wg.Done()
Done(i) ==
    /\ tpc[i] = "signal"
    /\ wg' = wg - 1
    /\ tpc' = [tpc EXCEPT ![i] = "finished"]
    /\ UNCHANGED <<env, pc, revs, gitCalls, runErr, next, mu, terr, lookups,
                   sent, errs, held>>

\* the error triggerBuilds returns for the collected errors es
aggregate(es) ==
    IF Len(es) > 0 THEN Errorf(Join(es, <<LF>>)) ELSE nil

\* Wait that returns as soon as the loop has started every goroutine
WaitWithoutJoin ==
    /\ pc = "builds"
    /\ next > Len(revs)
    /\ runErr' = aggregate(errs)
    /\ pc' = "done"
    /\ UNCHANGED <<env, revs, gitCalls, next, wg, tpc, terr, lookups, sent,
                   mu, errs, held>>

\* wg.Wait() returns once the counter is zero; triggerBuilds and run return
Wait ==
    /\ pc = "builds"
    /\ next > Len(revs)
    /\ wg = 0
    /\ runErr' = aggregate(errs)
    /\ pc' = "done"
    /\ UNCHANGED <<env, revs, gitCalls, next, wg, tpc, terr, lookups, sent,
                   mu, errs, held>>

Next ==
    \/ Run
    \/ Spawn
    \/ \E i \in Tasks : GetChange(i)
    \/ \E i \in Tasks : DispatchTrybot(i)
    \/ \E i \in Tasks : DispatchUnity(i)
    \/ \E i \in Tasks : AddNil(i)
    \/ \E i \in Tasks : AddLock(i)
    \/ \E i \in Tasks : AddAppend(i)
    \/ \E i \in Tasks : Done(i)
    \/ Wait

\* ------------------------------------------------------------------------
\* The inputs the initial states draw from (continued)
\* ------------------------------------------------------------------------

UpstreamMain == GitOK(<<"o", "r", "i", "g", "i", "n", "/", "m", "a", "i", "n", LF>>)

Config(unity) ==
    [githubOwner |-> <<"o">>, githubRepo |-> <<"r">>,
     unityOwner |-> <<"o">>, unityRepo |-> unity]

UnityRepo == <<"u">>

\* answers of the dispatch endpoint
Accepted == [err |-> FALSE, StatusCode |-> 204, Body |-> <<>>]
TransportError == [err |-> TRUE, StatusCode |-> 0, Body |-> <<>>]
Rejected ==
    [err |-> FALSE, StatusCode |-> 422, Body |-> <<"n", "o", SP, "r", "e", "f">>]

\* a response whose body holds a percent sign
Overloaded ==
    [err |-> FALSE, StatusCode |-> 503,
     Body |-> <<"5", "0", "%", SP, "d", "o", "w", "n">>]

\* How a commit hash relates to its change on the review server: c2 is the
\* latest patchset of its change, c1 and c4 have been superseded by a newer
\* patchset, c3 was never mailed. A change named on the command line has two
\* patchsets.
Superseded(h) == h \in {K1.hash, K4.hash}
Latest(h) == h = K2.hash

NewerOf(h) == <<"n">> \o h
OlderOf(h) == <<"p">> \o h

\* the ref refs/changes/NN/n/p of patchset p of change n
RefOf(n, p) == [change |-> n, patchset |-> p]

RevisionsFor(h, n) ==
    IF Superseded(h)
    THEN (h :> [Number |-> 1, Ref |-> RefOf(n, 1)])
         @@ (NewerOf(h) :> [Number |-> 2, Ref |-> RefOf(n, 2)])
    ELSE IF Latest(h)
    THEN (OlderOf(h) :> [Number |-> 1, Ref |-> RefOf(n, 1)])
         @@ (h :> [Number |-> 2, Ref |-> RefOf(n, 2)])
    ELSE (OlderOf(h) :> [Number |-> 1, Ref |-> RefOf(n, 1)])
         @@ (NewerOf(h) :> [Number |-> 2, Ref |-> RefOf(n, 2)])

CurrentFor(h) == IF Latest(h) THEN h ELSE NewerOf(h)

\* the labels of a change: no TryBot-Result label, TryBot-Result votes
\* without a +1, TryBot-Result votes with a +1
LabelChoices == {"none", "failed", "passed"}

LabelsFor(l) ==
    CASE l = "none" -> ("Code-Review" :> <<1, 2>>)
      [] l = "failed" -> ("Code-Review" :> <<1, 2>>) @@ (TryBotResult :> <<0, -1>>)
      [] l = "passed" -> ("Code-Review" :> <<1, 2>>) @@ (TryBotResult :> <<-1, 1>>)

\* the ChangeInfo of change number n whose patchsets relate to hash h
ChangeInfo(n, h, l) ==
    [Number |-> n,
     Branch |-> IF n % 2 = 0 THEN "release" ELSE "master",
     CurrentRevision |-> CurrentFor(h),
     Revisions |-> RevisionsFor(h, n),
     Labels |-> LabelsFor(l)]

\* the review server for the revisions rs: choice[i] is "unknown" when the
\* change of rs[i] does not exist, else the labels of that change; a change
\* named twice is described by its first occurrence
RECURSIVE firstIndex(_, _, _)
firstIndex(rs, id, i) ==
    IF rs[i].changeID = id THEN i ELSE firstIndex(rs, id, i + 1)

Server(rs, choice) ==
    LET ids == {rs[i].changeID : i \in 1..Len(rs)}
        at(id) == firstIndex(rs, id, 1)
        known == {id \in ids : choice[at(id)] # "unknown"}
    IN  [id \in known |->
            ChangeInfo(100 + at(id), rs[at(id)].revision, choice[at(id)])]

\* ------------------------------------------------------------------------
\* Initial states and specifications
\* ------------------------------------------------------------------------

ArgTokens == {HEAD, CL1234, RefC1, RefT1, RefC2, RefC9, RefX, RefM}

ExplicitPool == <<CL1234, CL5678, ChangeIdA, CL9012>>

PendingPool == <<K2, K1, K3, K4>>

Branchpoint == GitOK(<<"c", "0", LF>>)

\* the state of the program when run is entered
InitProgram ==
    /\ pc = "start"
    /\ revs = <<>>
    /\ gitCalls = <<>>
    /\ runErr = nil
    /\ next = 1
    /\ wg = 0
    /\ tpc = <<>>
    /\ terr = <<>>
    /\ lookups = <<>>
    /\ sent = <<>>
    /\ mu = 0
    /\ errs = <<>>
    /\ held = <<>>

\* Resolution-focused inputs: any short argument list against any short list
\* of pending commits, with --change given or not (runtrybot registers the
\* flag; run does not read it); the review server knows every change that is
\* not named like a git ref, and the dispatch endpoint accepts every request
InitResolve ==
    /\ args \in SeqUpTo(ArgTokens, MaxArgs)
    /\ flags \in [force : {FALSE}, nounity : {FALSE}, change : BOOLEAN]
    /\ cfg = Config(UnityRepo)
    /\ \E b \in {Branchpoint, GitFail}, u \in {UpstreamMain, GitFail},
          lp \in {GitOK(GitLogFormat(q)) :
                    q \in {q \in SeqUpTo({K1, K2, K9, K8}, MaxPending) :
                              Distinct(q)}}
                 \cup {GitFail} :
          git = [branchpoint |-> b, logPending |-> lp, upstream |-> u]
    /\ \E rs \in {resolve(args).res} :
          gerrit = Server(rs, [i \in 1..Len(rs) |->
                                  IF rs[i].changeID \in ArgTokens \ {CL1234}
                                  THEN "unknown" ELSE "passed"])
    /\ github = {Accepted}
    /\ InitProgram

\* Policy-focused inputs: up to MaxRevs changes named on the command line, or
\* HEAD with up to MaxRevs pending commits; any mix of unknown changes and
\* label states; --force set or not; no unity repository
InitPolicy ==
    /\ \E n \in 1..MaxRevs :
          \/ /\ args = Prefix(ExplicitPool, n)
             /\ git = [branchpoint |-> Branchpoint,
                       logPending |-> GitOK(GitLogFormat(<<K1>>)),
                       upstream |-> UpstreamMain]
          \/ /\ args = <<HEAD>>
             /\ git = [branchpoint |-> Branchpoint,
                       logPending |-> GitOK(GitLogFormat(Prefix(PendingPool, n))),
                       upstream |-> UpstreamMain]
    /\ flags \in [force : BOOLEAN, nounity : {FALSE}, change : {FALSE}]
    /\ cfg = Config(<<>>)
    /\ \E rs \in {resolve(args).res} :
          \E choice \in [1..Len(rs) -> LabelChoices \cup {"unknown"}] :
             gerrit = Server(rs, choice)
    /\ github = {Accepted}
    /\ InitProgram

\* Delivery-focused inputs: up to MaxRevs changes named on the command line,
\* all known and without a TryBot-Result; the endpoint may fail; the unity
\* repository configured or not, --nounity set or not
InitDelivery ==
    /\ \E n \in 1..MaxRevs : args = Prefix(ExplicitPool, n)
    /\ git = [branchpoint |-> Branchpoint,
              logPending |-> GitOK(GitLogFormat(<<K1>>)),
              upstream |-> UpstreamMain]
    /\ flags \in [force : {FALSE}, nounity : BOOLEAN, change : {FALSE}]
    /\ cfg \in {Config(<<>>), Config(UnityRepo)}
    /\ \E rs \in {resolve(args).res} :
          gerrit = Server(rs, [i \in 1..Len(rs) |-> "none"])
    /\ github \in {{Accepted, TransportError}, {Accepted, Rejected},
                  {Accepted, Overloaded}}
    /\ InitProgram

Init == InitPolicy \/ InitDelivery

Spec == Init /\ [][Next]_vars

SpecResolve == InitResolve /\ [][Next]_vars

\* Fan-out-focused inputs: up to MaxRevs changes named on the command line,
\* each known to the review server or not; the unity repository configured;
\* the endpoint may fail
InitFanOut ==
    /\ \E n \in 1..MaxRevs : args = Prefix(ExplicitPool, n)
    /\ git = [branchpoint |-> Branchpoint,
              logPending |-> GitOK(GitLogFormat(<<K1>>)),
              upstream |-> UpstreamMain]
    /\ flags = [force |-> FALSE, nounity |-> FALSE, change |-> FALSE]
    /\ cfg = Config(UnityRepo)
    /\ \E rs \in {resolve(args).res} :
          \E choice \in [1..Len(rs) -> {"none", "unknown"}] :
             gerrit = Server(rs, choice)
    /\ github = {Accepted, TransportError}
    /\ InitProgram

\* the steps of goroutine i, from its start to its wg.Done()
goroutine(i) ==
    /\ i \in Tasks
    /\ \/ GetChange(i)
       \/ DispatchTrybot(i)
       \/ DispatchUnity(i)
       \/ AddNil(i)
       \/ AddLock(i)
       \/ AddAppend(i)
       \/ Done(i)

\* triggerBuilds under the scheduler of the Go runtime: the goroutine that
\* runs the loop and wg.Wait(), and each goroutine the loop started, takes
\* its next step when it stays able to; every call of the review server and
\* of the endpoint returns
SpecFair ==
    /\ InitFanOut
    /\ [][Next]_vars
    /\ WF_vars(Spawn \/ Wait)
    /\ \A i \in 1..MaxRevs : WF_vars(goroutine(i))

\* ------------------------------------------------------------------------
\* Vocabulary of the properties
\* ------------------------------------------------------------------------

\* number of entries of sequence q equal to e
Occurrences(q, e) == Cardinality({k \in 1..Len(q) : q[k] = e})

\* the review server does not know the change of revision i
LookupFails(i) == revs[i].changeID \notin DOMAIN gerrit

LookupError ==
    <<"failed to get current revision information: ", "change not found">>

\* the metadata of the change of revision i
Meta(i) == gerrit[revs[i].changeID]

\* the hash revision i asks for, an empty hash standing for the current one
RequestedHash(i) ==
    IF revs[i].revision = <<>> THEN Meta(i).CurrentRevision
    ELSE revs[i].revision

RequestedKnown(i) == RequestedHash(i) \in DOMAIN Meta(i).Revisions

\* the TryBot-Result label of the change of revision i has a vote of 1
HasPlusOne(i) ==
    /\ TryBotResult \in DOMAIN Meta(i).Labels
    /\ \E k \in DOMAIN Meta(i).Labels[TryBotResult] :
          Meta(i).Labels[TryBotResult][k] = 1

\* the pending commits branchpoint..HEAD
Pending == resolveCommits(git.logPending).commits

\* the history reader answered both the branchpoint and the pending commits
HistoryRead == ~git.branchpoint.err /\ resolveCommits(git.logPending).err = nil

\* no argument is a change ID, so that run derives the revisions
DerivedMode == \A i \in 1..Len(args) : ~rxChangeID(args[i])

\* derived mode with commits named as arguments
CommitArgs ==
    /\ DerivedMode
    /\ HistoryRead
    /\ args # <<>>
    /\ \A i \in 1..Len(args) : args[i] # HEAD

\* the commits argument i resolves to
CommitsOf(i) == resolveCommits(gitLogOne(args[i])).commits

\* commit body b carries exactly one Change-Id trailer
OneTrailer(b) == Len(changeIDRegex(b)) = 1

\* ------------------------------------------------------------------------
\* C1
\* ------------------------------------------------------------------------

\* C1: fan-out isolation. When triggerBuilds has returned, a revision whose
\* lookup failed has sent nothing; every revision of a known change whose
\* requested hash is known and that has no +1 TryBot-Result vote has been
\* dispatched, whatever happened to the other revisions; the collector holds
\* one lookup error per revision whose lookup failed; and when that is the
\* only failure the returned error is exactly that failure.
C1_FanOutIsolation ==
    pc = "done" =>
        /\ \A i \in Tasks : LookupFails(i) => sent[i] = <<>>
        /\ \A j \in Tasks :
              (~LookupFails(j) /\ RequestedKnown(j) /\ ~HasPlusOne(j))
              => (sent[j] # <<>> /\ sent[j][1].payload.CL = Meta(j).Number)
        /\ Occurrences(errs, LookupError)
              = Cardinality({i \in Tasks : LookupFails(i)})
        /\ (runErr = nil) = (errs = <<>>)
        /\ errs = <<LookupError>> => runErr = LookupError

\* three revisions, exactly one failed at lookup, the other two dispatched,
\* and the returned error is that one failure
C1_Witness ==
    /\ pc = "done"
    /\ Len(revs) = 3
    /\ Cardinality({i \in Tasks : LookupFails(i)}) = 1
    /\ \A j \in Tasks : ~LookupFails(j) => sent[j] # <<>>
    /\ errs = <<LookupError>>
    /\ runErr = LookupError

\* ------------------------------------------------------------------------
\* C2
\* ------------------------------------------------------------------------

\* C2: skip policy. A finished task whose requested hash is the current
\* revision of its change, on a change with a +1 TryBot-Result vote, has sent
\* nothing and holds no error when --force is not set, and has dispatched
\* when --force is set.
C2_SkipPolicy ==
    \A i \in Tasks :
        (/\ tpc[i] = "finished"
         /\ ~LookupFails(i)
         /\ revs[i].revision = Meta(i).CurrentRevision
         /\ HasPlusOne(i))
        => IF flags.force
           THEN sent[i] # <<>>
           ELSE sent[i] = <<>> /\ terr[i] = nil /\ Occurrences(errs, terr[i]) = 0

\* a task that was skipped: current revision requested, +1 vote, no --force
C2_Witness ==
    \E i \in Tasks :
        /\ tpc[i] = "finished"
        /\ ~LookupFails(i)
        /\ revs[i].revision = Meta(i).CurrentRevision
        /\ HasPlusOne(i)
        /\ ~flags.force
        /\ sent[i] = <<>>
        /\ pc = "done"
        /\ runErr = nil

\* ------------------------------------------------------------------------
\* C3
\* ------------------------------------------------------------------------

\* C3: a revision with an empty hash requests the current revision: without
\* --force and with a +1 TryBot-Result vote on its change, its finished task
\* has sent nothing.
C3_EmptyHashSkips ==
    \A i \in Tasks :
        (/\ tpc[i] = "finished"
         /\ revs[i].revision = <<>>
         /\ ~LookupFails(i)
         /\ HasPlusOne(i)
         /\ ~flags.force)
        => sent[i] = <<>>

\* ------------------------------------------------------------------------
\* C4
\* ------------------------------------------------------------------------

\* C4: once resolution has succeeded, the revisions are pairwise distinct by
\* (changeID, revision hash) and there is at least one.
C4_ResolutionDistinct ==
    pc = "builds" => (revs # <<>> /\ Distinct(revs))

\* ------------------------------------------------------------------------
\* C5
\* ------------------------------------------------------------------------

\* C5: with HEAD and at least one other argument, run ends with a resolution
\* error, no revisions and nothing dispatched.
C5_HeadNotAlone ==
    (pc # "start" /\ Len(args) > 1 /\ \E i \in 1..Len(args) : args[i] = HEAD)
    => (pc = "done" /\ runErr # nil /\ revs = <<>>)

\* ------------------------------------------------------------------------
\* C6
\* ------------------------------------------------------------------------

MustSpecifyError ==
    <<"must specify commits as arguments or use HEAD for everything">>

\* C6: with no arguments and more than one pending commit, run ends with the
\* error "must specify commits as arguments or use HEAD for everything" and
\* no revisions.
C6_NoArgsManyPending ==
    (pc # "start" /\ args = <<>> /\ HistoryRead /\ Len(Pending) > 1)
    => (pc = "done" /\ runErr = MustSpecifyError /\ revs = <<>>)

\* run has failed for an empty argument list over two pending commits
C6_Witness ==
    /\ pc = "done"
    /\ args = <<>>
    /\ HistoryRead
    /\ Len(Pending) = 2
    /\ runErr = MustSpecifyError

\* ------------------------------------------------------------------------
\* C7
\* ------------------------------------------------------------------------

\* run has returned a resolution error (a run that got as far as
\* triggerBuilds has at least one revision)
ResolutionFailed == pc = "done" /\ revs = <<>> /\ runErr # nil

DeriveError ==
    <<"failed to derive change ID: ",
      "failed to find Change-Id in commit message">>

HasSuffix(q, x) ==
    Len(q) >= Len(x) /\ SubSeq(q, Len(q) - Len(x) + 1, Len(q)) = x

\* C7: in derived mode, when HEAD is the only argument or there is no
\* argument and one pending commit, and every pending commit carries one
\* Change-Id trailer, the revisions are one per pending commit, in order,
\* each with the hash and the Change-Id of its commit (otherwise the run
\* fails to derive a change ID); and the run without arguments over a single
\* pending commit ends as the run with HEAD does.
C7_AllPending ==
    (/\ pc # "start"
     /\ HistoryRead
     /\ args = <<HEAD>> \/ (args = <<>> /\ Len(Pending) = 1))
    => /\ IF \A k \in 1..Len(Pending) : OneTrailer(Pending[k].body)
          THEN /\ ~ResolutionFailed
               /\ Len(revs) = Len(Pending)
               /\ \A k \in 1..Len(Pending) :
                     /\ revs[k].revision = Pending[k].hash
                     /\ HasSuffix(revs[k].changeID,
                                  changeIDRegex(Pending[k].body)[1])
          ELSE ResolutionFailed /\ runErr = DeriveError
       /\ revs = resolve(<<HEAD>>).res
       /\ ResolutionFailed => runErr = resolve(<<HEAD>>).err

\* HEAD over two pending commits gave two revisions in pending order
C7_Witness ==
    /\ pc = "builds"
    /\ args = <<HEAD>>
    /\ Len(Pending) = 2
    /\ Len(revs) = 2
    /\ revs[1].revision = Pending[1].hash
    /\ revs[2].revision = Pending[2].hash

\* ------------------------------------------------------------------------
\* C8
\* ------------------------------------------------------------------------

\* argument i resolves to no commit, to several, or to a commit that is not
\* pending
ResolvesToNone(i) == resolveCommits(gitLogOne(args[i])).err # nil
ResolvesToMany(i) == ~ResolvesToNone(i) /\ Len(CommitsOf(i)) > 1
NotPending(i) ==
    /\ ~ResolvesToNone(i)
    /\ Len(CommitsOf(i)) = 1
    /\ \A k \in 1..Len(Pending) : Pending[k].hash # CommitsOf(i)[1].hash

BadArg(i) == ResolvesToNone(i) \/ ResolvesToMany(i) \/ NotPending(i)

ResolveError(a) == <<"failed to resolve revision ">> \o Quote(a)
NotPendingError(a) == <<"commit ">> \o a \o <<" is not a pending commit">>

\* the error for the bad argument i
BadArgError(i) ==
    IF NotPending(i) THEN NotPendingError(args[i]) ELSE ResolveError(args[i])

\* the first bad argument
FirstBad == CHOOSE i \in 1..Len(args) :
                BadArg(i) /\ \A j \in 1..(i - 1) : ~BadArg(j)

\* an argument before the first bad one names a pending commit without a
\* single Change-Id trailer
DeriveFailsBefore(f) ==
    \E j \in 1..(f - 1) : ~OneTrailer(CommitsOf(j)[1].body)

\* C8 as stated: with commits named as arguments, an argument that resolves
\* to no commit, to several or to a commit that is not pending makes run end
\* with no revisions and an error that names such an argument.
C8_BadArgNamed ==
    (pc # "start" /\ CommitArgs /\ \E i \in 1..Len(args) : BadArg(i))
    => /\ ResolutionFailed
       /\ \E i \in 1..Len(args) : BadArg(i) /\ runErr = BadArgError(i)

\* C8 as amended: with commits named as arguments of which at least one
\* resolves to no commit, to several or to a commit that is not pending, run
\* ends with a resolution error and no revisions; the error names the first
\* such argument, unless an argument before it names a pending commit
\* without a single Change-Id trailer, in which case the error is the
\* failure to derive the change ID.
C8_BadArgFails ==
    (pc # "start" /\ CommitArgs /\ \E i \in 1..Len(args) : BadArg(i))
    => /\ ResolutionFailed
       /\ runErr = IF DeriveFailsBefore(FirstBad) THEN DeriveError
                   ELSE BadArgError(FirstBad)

\* a good argument followed by a bad one: the error names the second
C8_Witness ==
    /\ pc = "done"
    /\ CommitArgs
    /\ Len(args) = 2
    /\ ~BadArg(1)
    /\ BadArg(2)
    /\ revs = <<>>
    /\ runErr = BadArgError(2)

\* ------------------------------------------------------------------------
\* C9
\* ------------------------------------------------------------------------

\* C9: when resolution of commit arguments has succeeded, every argument's
\* commit has exactly one revision, however many arguments resolve to it,
\* and there are no other revisions.
C9_Dedup ==
    (pc = "builds" /\ CommitArgs)
    => /\ \A i \in 1..Len(args) :
             Cardinality({k \in 1..Len(revs) :
                            revs[k].revision = CommitsOf(i)[1].hash}) = 1
       /\ Len(revs) = Cardinality({CommitsOf(i)[1].hash : i \in 1..Len(args)})

\* two arguments that resolve to the same pending commit gave one revision
C9_Witness ==
    /\ pc = "builds"
    /\ CommitArgs
    /\ Len(args) = 2
    /\ CommitsOf(1)[1].hash = CommitsOf(2)[1].hash
    /\ Len(revs) = 1

\* ------------------------------------------------------------------------
\* C10
\* ------------------------------------------------------------------------

\* run took its explicit branch
ExplicitMode == scanArgs(args, 1, TRUE) = "explicit"

\* C10: in explicit mode the revisions are the arguments, in order, each
\* with an empty revision hash, and no git command has been run.
C10_ExplicitMode ==
    (pc # "start" /\ ExplicitMode)
    => /\ Len(revs) = Len(args)
       /\ \A i \in 1..Len(args) :
             revs[i] = [changeID |-> args[i], revision |-> <<>>]
       /\ gitCalls = <<>>

\* two change IDs became two revisions without a git command
C10_Witness ==
    /\ pc = "builds"
    /\ ExplicitMode
    /\ Len(args) = 2
    /\ Len(revs) = 2
    /\ gitCalls = <<>>

\* ------------------------------------------------------------------------
\* C11
\* ------------------------------------------------------------------------

MustProvideError == <<"must provide at least one change number of ID">>

\* no goroutine has sent a dispatch request
NothingSent == \A i \in DOMAIN sent : sent[i] = <<>>

\* C11: when explicit mode is asked for (--change) and there are no
\* arguments, run ends with the error "must provide at least one change
\* number of ID", no revisions and nothing dispatched.
C11_ExplicitNoArgs ==
    (pc # "start" /\ flags.change /\ args = <<>>)
    => (pc = "done" /\ runErr = MustProvideError /\ revs = <<>> /\ NothingSent)

\* ------------------------------------------------------------------------
\* C12
\* ------------------------------------------------------------------------

\* the lines of commit body b that start with "Change-Id: "
TrailerLines(b) ==
    {i \in 1..Len(Split(b, LF)) : HasPrefix(Split(b, LF)[i], ChangeIdKey)}

\* what follows "Change-Id: " on line i of commit body b
TrailerValue(b, i) == Drop(Split(b, LF)[i], Len(ChangeIdKey))

\* C12: trailer extraction. For every pending commit, getChangeIDFromCommitMsg
\* returns the value of the Change-Id line when the body has exactly one such
\* line and an error when it has none or several; accordingly a run over all
\* pending commits (HEAD) gives every revision the value of its commit's one
\* Change-Id line, or fails to derive a change ID when some pending commit
\* has none or several.
C12_TrailerExtraction ==
    /\ \A k \in 1..Len(Pending) :
          LET b == Pending[k].body
              r == getChangeIDFromCommitMsg(b)
          IN  IF Cardinality(TrailerLines(b)) = 1
              THEN /\ r.err = nil
                   /\ \E i \in TrailerLines(b) : r.id = TrailerValue(b, i)
              ELSE r.err # nil
    /\ (pc # "start" /\ HistoryRead /\ args = <<HEAD>>)
       => IF \A k \in 1..Len(Pending) :
                Cardinality(TrailerLines(Pending[k].body)) = 1
          THEN /\ pc # "done" \/ revs # <<>>
               /\ Len(revs) = Len(Pending)
               /\ \A k \in 1..Len(Pending) :
                     \E i \in TrailerLines(Pending[k].body) :
                        HasSuffix(revs[k].changeID,
                                  TrailerValue(Pending[k].body, i))
          ELSE ResolutionFailed /\ runErr = DeriveError

\* HEAD over a commit with one Change-Id line followed by a commit with two:
\* the run failed to derive a change ID
C12_Witness ==
    /\ pc = "done"
    /\ args = <<HEAD>>
    /\ HistoryRead
    /\ Len(Pending) = 2
    /\ Cardinality(TrailerLines(Pending[1].body)) = 1
    /\ Cardinality(TrailerLines(Pending[2].body)) = 2
    /\ runErr = DeriveError

\* ------------------------------------------------------------------------
\* C13
\* ------------------------------------------------------------------------

RawI1234 == <<"I", "1", "2", "3", "4">>

\* o/r~main~I1234 with the slash percent-escaped
CompoundI1234 ==
    <<"o", "%", "2", "F", "r", "~", "m", "a", "i", "n", "~",
      "I", "1", "2", "3", "4">>

\* HEAD tracks origin/main; HEAD tracks no upstream branch
TracksMain == git.upstream = UpstreamMain
NoUpstream == git.upstream.err

C13_WitnessRaw ==
    /\ pc = "builds"
    /\ DerivedMode
    /\ NoUpstream
    /\ \E k \in 1..Len(revs) :
          revs[k].revision = K1.hash /\ revs[k].changeID = RawI1234

\* ------------------------------------------------------------------------
\* C14
\* ------------------------------------------------------------------------

\* C14: in derived mode every revision has a non-empty hash, which is the
\* hash of a pending commit, and its changeID ends with the Change-Id of
\* that very commit.
C14_DerivedHashes ==
    (pc # "start" /\ DerivedMode)
    => \A k \in 1..Len(revs) :
          /\ revs[k].revision # <<>>
          /\ \E j \in 1..Len(Pending) :
                /\ Pending[j].hash = revs[k].revision
                /\ \E i \in TrailerLines(Pending[j].body) :
                      HasSuffix(revs[k].changeID,
                                TrailerValue(Pending[j].body, i))

\* two commits named as arguments (the first by a tag) gave two revisions
\* with the hashes of their pending commits
C14_Witness ==
    /\ pc = "builds"
    /\ CommitArgs
    /\ args = <<RefT1, RefC2>>
    /\ Len(revs) = 2
    /\ revs[1].revision = K1.hash
    /\ revs[2].revision = K2.hash

\* ------------------------------------------------------------------------
\* C15
\* ------------------------------------------------------------------------

\* the hash revision i asks for is not the current revision of its change
OlderRequested(i) == RequestedHash(i) # Meta(i).CurrentRevision

\* C15: with --force, every finished task whose change and requested
\* revision are known to the review server has dispatched, whatever the
\* votes and whether or not the requested hash is the current one.
C15_ForceDispatches ==
    \A i \in Tasks :
        (/\ tpc[i] = "finished"
         /\ flags.force
         /\ ~LookupFails(i)
         /\ RequestedKnown(i))
        => /\ sent[i] # <<>>
           /\ sent[i][1].payload.CL = Meta(i).Number

\* under --force a task dispatched the current revision of a change with a
\* +1 vote, and another dispatched an older revision
C15_Witness ==
    /\ pc = "done"
    /\ flags.force
    /\ \E i \in Tasks :
          /\ ~LookupFails(i)
          /\ revs[i].revision = Meta(i).CurrentRevision
          /\ HasPlusOne(i)
          /\ sent[i] # <<>>
    /\ \E i \in Tasks :
          /\ ~LookupFails(i)
          /\ RequestedKnown(i)
          /\ OlderRequested(i)
          /\ sent[i] # <<>>

\* ------------------------------------------------------------------------
\* C16
\* ------------------------------------------------------------------------

\* C16: without --force, every finished task whose change and requested
\* revision are known has dispatched when the requested hash is an older
\* revision, or the change has no TryBot-Result label, or the label has no
\* vote of 1.
C16_NoForceDispatches ==
    \A i \in Tasks :
        (/\ tpc[i] = "finished"
         /\ ~flags.force
         /\ ~LookupFails(i)
         /\ RequestedKnown(i)
         /\ \/ OlderRequested(i)
            \/ TryBotResult \notin DOMAIN Meta(i).Labels
            \/ ~HasPlusOne(i))
        => /\ sent[i] # <<>>
           /\ sent[i][1].payload.CL = Meta(i).Number

\* without --force two tasks dispatched: an older revision of a change with
\* a +1 vote, and the current revision of a change whose votes are all
\* different from 1
C16_Witness ==
    /\ pc = "done"
    /\ ~flags.force
    /\ \E i \in Tasks :
          /\ ~LookupFails(i) /\ RequestedKnown(i)
          /\ OlderRequested(i) /\ HasPlusOne(i)
          /\ sent[i] # <<>>
    /\ \E i \in Tasks :
          /\ ~LookupFails(i) /\ RequestedKnown(i)
          /\ TryBotResult \in DOMAIN Meta(i).Labels /\ ~HasPlusOne(i)
          /\ sent[i] # <<>>

\* ------------------------------------------------------------------------
\* C17
\* ------------------------------------------------------------------------

\* the errors the finished tasks ended with, as a bag of messages
TaskErrorCount(e) == Cardinality({i \in Tasks : terr[i] = e})

\* C17: aggregate outcome. When triggerBuilds has returned, it returned an
\* error exactly when some task ended with an error, the recorded messages
\* are exactly the messages of the failed tasks, and the returned message
\* is the recorded messages joined by newlines.
C17_AggregateOutcome ==
    (pc = "done" /\ revs # <<>>)
    => /\ (runErr # nil) = (\E i \in Tasks : terr[i] # nil)
       /\ \A i \in Tasks :
             terr[i] # nil => Occurrences(errs, terr[i]) = TaskErrorCount(terr[i])
       /\ Len(errs) = Cardinality({i \in Tasks : terr[i] # nil})
       /\ runErr = Join(errs, <<LF>>)

\* ------------------------------------------------------------------------
\* C18
\* ------------------------------------------------------------------------

\* task i ended with an error that the collector holds
Recorded(i) == terr[i] # nil => Occurrences(errs, terr[i]) >= 1

\* every task has run to its end: it made its lookup, recorded its error
\* if it had one, and signalled the wait group
AllTasksFinished ==
    \A i \in Tasks :
        /\ tpc[i] = "finished"
        /\ lookups[i] = 1
        /\ Recorded(i)
        /\ (~LookupFails(i) /\ RequestedKnown(i) /\ ~HasPlusOne(i))
           => sent[i] # <<>>

\* C18: triggerBuilds returns only when every task has run to its end, its
\* append to the error collector included, whatever errors other tasks had;
\* and once it has returned, the collector, the tasks and the requests sent
\* no longer change.
C18_JoinAfterAll ==
    /\ [](pc = "done" => AllTasksFinished /\ mu = 0 /\ wg = 0)
    /\ [][pc = "done"
             => errs' = errs /\ tpc' = tpc /\ sent' = sent /\ lookups' = lookups]_vars

\* three tasks, one of which failed at its lookup: all are finished when
\* triggerBuilds has returned, and the other two have dispatched
C18_Witness ==
    /\ pc = "done"
    /\ Len(revs) = 3
    /\ AllTasksFinished
    /\ Cardinality({i \in Tasks : terr[i] # nil}) = 1
    /\ Cardinality({i \in Tasks : sent[i] # <<>>}) = 2
    /\ Len(errs) = 1

\* ------------------------------------------------------------------------
\* C19
\* ------------------------------------------------------------------------

\* the tasks that are past errs.Add
PastAdd == {i \in Tasks : tpc[i] \in {"signal", "finished"}}

\* C19: the error collector loses nothing. At any moment it holds exactly
\* the errors of the tasks that are past their call of Add, each as many
\* times as tasks ended with it, and nothing for a task without error; so
\* when triggerBuilds has returned it holds one error per failed task.
C19_NoLostError ==
    /\ Len(errs) = Cardinality({i \in PastAdd : terr[i] # nil})
    /\ \A i \in PastAdd :
          terr[i] # nil
          => Occurrences(errs, terr[i])
               = Cardinality({j \in PastAdd : terr[j] = terr[i]})
    /\ \A k \in 1..Len(errs) : errs[k] # nil
    /\ pc = "done"
       => Len(errs) = Cardinality({i \in Tasks : terr[i] # nil})

\* three tasks of which two failed and one succeeded: the collector holds
\* two errors
C19_Witness ==
    /\ pc = "done"
    /\ Len(revs) = 3
    /\ Cardinality({i \in Tasks : terr[i] # nil}) = 2
    /\ Cardinality({i \in Tasks : terr[i] = nil /\ sent[i] # <<>>}) = 1
    /\ Len(errs) = 2

\* ------------------------------------------------------------------------
\* C20
\* ------------------------------------------------------------------------

MixError == <<"cannot mix change IDs and git refs">>

\* how the messages of the resolution phase begin
ResolutionErrorHeads ==
    {"cannot mix change IDs and git refs",
     "must provide at least one change number of ID",
     "failed to run git codereview branchpoint",
     "failed to run git log",
     "resulted in no git commits",
     "no pending commits",
     "HEAD can only be supplied as an argument by itself",
     "must specify commits as arguments or use HEAD for everything",
     "failed to derive change ID: ",
     "failed to resolve revision ",
     "commit "}

\* run has ended with an error of the resolution phase
EndedInResolutionError ==
    pc = "done" /\ runErr # nil /\ runErr[1] \in ResolutionErrorHeads

\* no goroutine has called GetChange
NoLookups == \A i \in DOMAIN lookups : lookups[i] = 0

\* C20: a run whose arguments fail to resolve ends at once with the
\* resolution error; and in every run that has ended with a resolution
\* error there are no revisions, no goroutine was started, GetChange was
\* never called and nothing was dispatched.
C20_ResolutionAborts ==
    /\ (pc # "start" /\ resolve(args).err # nil)
       => (EndedInResolutionError /\ runErr = resolve(args).err)
    /\ EndedInResolutionError
       => /\ revs = <<>>
          /\ next = 1
          /\ wg = 0
          /\ NoLookups
          /\ NothingSent
          /\ errs = <<>>

\* a change number followed by a git ref: the run ended with the mix error
\* before any lookup
C20_Witness ==
    /\ pc = "done"
    /\ args = <<CL1234, RefC1>>
    /\ runErr = MixError
    /\ EndedInResolutionError
    /\ NoLookups
    /\ NothingSent

\* ------------------------------------------------------------------------
\* C21
\* ------------------------------------------------------------------------

\* C21: a task whose lookup on the review server failed ends with the error
\* "failed to get current revision information", which the collector holds
\* once the task is past Add, and delivers to no target, with or without
\* --force.
C21_LookupFailure ==
    \A i \in Tasks :
        (LookupFails(i) /\ tpc[i] \notin {"idle", "get"})
        => /\ terr[i] = LookupError
           /\ sent[i] = <<>>
           /\ lookups[i] = 1
           /\ i \in PastAdd => Occurrences(errs, LookupError) >= 1
           /\ pc = "done" => runErr # nil

\* under --force a task on an unknown change finished with the lookup error
\* and without a delivery, next to a task that dispatched
C21_Witness ==
    /\ pc = "done"
    /\ flags.force
    /\ \E i \in Tasks :
          /\ LookupFails(i)
          /\ tpc[i] = "finished"
          /\ terr[i] = LookupError
          /\ sent[i] = <<>>
    /\ \E j \in Tasks : sent[j] # <<>>

\* ------------------------------------------------------------------------
\* C22
\* ------------------------------------------------------------------------

\* the error of a task whose requested hash the change does not have
UnknownRevisionError(i) ==
    <<"change ">> \o Quote(revs[i].changeID)
    \o <<" does not know about revision ">> \o Quote(RequestedHash(i))
    \o <<"; did you forget to run git codereview mail?">>

\* C22: a finished task on a known change used the hash of its revision, or
\* the current revision of the change when that hash is empty: when the
\* change has no revision with that hash the task ended with the error
\* "does not know about revision" naming it and delivered nothing, with or
\* without --force; otherwise whatever it delivered describes the revision
\* entry of that hash.
C22_HashUsed ==
    \A i \in Tasks :
        (tpc[i] = "finished" /\ ~LookupFails(i))
        => IF RequestedKnown(i)
           THEN /\ terr[i] # UnknownRevisionError(i)
                /\ \A k \in 1..Len(sent[i]) :
                      sent[i][k].payload.Patchset
                        = Meta(i).Revisions[RequestedHash(i)].Number
           ELSE /\ terr[i] = UnknownRevisionError(i)
                /\ sent[i] = <<>>
                /\ Occurrences(errs, UnknownRevisionError(i)) >= 1

\* under --force a task whose commit was never mailed ended with the error
\* and sent nothing
C22_Witness ==
    /\ pc = "done"
    /\ flags.force
    /\ \E i \in Tasks :
          /\ ~LookupFails(i)
          /\ revs[i].revision # <<>>
          /\ ~RequestedKnown(i)
          /\ terr[i] = UnknownRevisionError(i)
          /\ sent[i] = <<>>

\* ------------------------------------------------------------------------
\* C23
\* ------------------------------------------------------------------------

\* C23: every request sent for revision i carries the number and the target
\* branch of its change and the patchset number and ref of the revision
\* entry of the requested hash.
C23_PayloadFields ==
    \A i \in Tasks :
        \A k \in 1..Len(sent[i]) :
            LET p == sent[i][k].payload
                entry == Meta(i).Revisions[RequestedHash(i)]
            IN  /\ p.CL = Meta(i).Number
                /\ p.TargetBranch = Meta(i).Branch
                /\ p.Patchset = entry.Number
                /\ p.Ref = entry.Ref

\* a request was sent for the first patchset of a change whose current
\* revision is the second
C23_Witness ==
    \E i \in Tasks :
        /\ sent[i] # <<>>
        /\ OlderRequested(i)
        /\ Meta(i).Revisions[Meta(i).CurrentRevision].Number = 2
        /\ sent[i][1].payload.Patchset = 1
        /\ sent[i][1].payload.Ref = RefOf(Meta(i).Number, 1)

\* ------------------------------------------------------------------------
\* C24
\* ------------------------------------------------------------------------

\* the k-th request of task i went to the trybot repository, to the unity
\* repository
ToTrybot(i, k) ==
    /\ sent[i][k].owner = cfg.githubOwner
    /\ sent[i][k].repo = cfg.githubRepo
    /\ sent[i][k].payload.Type = "trybot"

ToUnity(i, k) ==
    /\ sent[i][k].owner = cfg.unityOwner
    /\ sent[i][k].repo = cfg.unityRepo
    /\ sent[i][k].payload.Type = "unity"

\* the endpoint answered the k-th request of task i with a 2xx status
Delivered(i, k) ==
    ~sent[i][k].answer.err /\ sent[i][k].answer.StatusCode \div 100 = 2

\* task i is to trigger: its change and requested hash are known and the
\* skip rule does not apply
Triggered(i) ==
    /\ ~LookupFails(i)
    /\ RequestedKnown(i)
    /\ flags.force \/ OlderRequested(i) \/ ~HasPlusOne(i)

UnityConfigured == cfg.unityRepo # <<>>

\* C24: a finished task that is to trigger has sent its first request to the
\* trybot repository; a request to the unity repository is sent only when a
\* unity repository is configured and --nounity is not set, is then sent
\* whenever the trybot request succeeded, and is never sent with --nounity.
C24_DispatchTargets ==
    \A i \in Tasks :
        /\ (tpc[i] = "finished" /\ Triggered(i))
           => (sent[i] # <<>> /\ ToTrybot(i, 1))
        /\ \A k \in 1..Len(sent[i]) :
              ToTrybot(i, k) \/ ToUnity(i, k)
        /\ (\E k \in 1..Len(sent[i]) : sent[i][k].payload.Type = "unity")
           => (UnityConfigured /\ ~flags.nounity)
        /\ (/\ tpc[i] = "finished" /\ Triggered(i)
            /\ UnityConfigured /\ ~flags.nounity
            /\ Delivered(i, 1))
           => (Len(sent[i]) = 2 /\ ToUnity(i, 2))

\* one run delivered to both repositories ...
C24_Witness ==
    /\ pc = "done"
    /\ UnityConfigured
    /\ ~flags.nounity
    /\ \E i \in Tasks :
          /\ Len(sent[i]) = 2
          /\ ToTrybot(i, 1) /\ Delivered(i, 1)
          /\ ToUnity(i, 2) /\ Delivered(i, 2)

\* ... and a run with --nounity and a unity repository delivered to the
\* trybot repository only
C24_WitnessNoUnity ==
    /\ pc = "done"
    /\ UnityConfigured
    /\ flags.nounity
    /\ \E i \in Tasks :
          Len(sent[i]) = 1 /\ ToTrybot(i, 1) /\ Delivered(i, 1)

\* ------------------------------------------------------------------------
\* C25
\* ------------------------------------------------------------------------

\* x occurs in q as a contiguous part
Contains(q, x) ==
    \E d \in 0..(Len(q) - Len(x)) : SubSeq(q, d + 1, d + Len(x)) = x

\* how the report of a failed delivery with answer a begins: the transport
\* failure, or the status line of a response that is not 2xx
FailureHeading(a) ==
    IF a.err THEN <<"failed to send dispatch event: ", "transport error">>
    ELSE <<"dispatch call did not succeed; status code ">>
         \o (CASE a.StatusCode = 422 -> <<"4", "2", "2">>
               [] a.StatusCode = 503 -> <<"5", "0", "3">>
               [] OTHER -> <<"?">>)
         \o <<LF>>

\* C25: when a delivery of task i failed (transport error or a status that
\* is not 2xx, to the trybot or to the unity repository), the task ends with
\* an error that reports this failure, the collector holds that error once
\* the task is past Add, and the error triggerBuilds returns reports the
\* failure (a response body without percent sign included).
C25_DeliveryFailureRecorded ==
    \A i \in Tasks :
        \A k \in 1..Len(sent[i]) :
            ~Delivered(i, k)
            => LET a == sent[i][k].answer
               IN  /\ k = Len(sent[i])
                   /\ terr[i] # nil
                   /\ HasPrefix(terr[i], FailureHeading(a))
                   /\ HasSuffix(terr[i], a.Body)
                   /\ i \in PastAdd => Occurrences(errs, terr[i]) >= 1
                   /\ pc = "done"
                      => /\ runErr # nil
                         /\ Contains(runErr, FailureHeading(a))
                         /\ ~slicesContains(a.Body, "%")
                            => Contains(runErr, terr[i])

\* a run in which the trybot delivery of one task and the unity delivery of
\* another failed, both reported by the returned error
C25_Witness ==
    /\ pc = "done"
    /\ \E i, j \in Tasks :
          /\ Len(sent[i]) = 1 /\ ~Delivered(i, 1)
          /\ Len(sent[j]) = 2 /\ ~Delivered(j, 2)
          /\ Contains(runErr, terr[i])
          /\ Contains(runErr, terr[j])
          /\ Len(errs) >= 2

\* ------------------------------------------------------------------------
\* C26
\* ------------------------------------------------------------------------

\* the tasks of the revision that task i is for
TasksOf(i) == {j \in Tasks : revs[j] = revs[i]}

RECURSIVE SumOver(_, _)
SumOver(S, f) ==
    IF S = {} THEN 0
    ELSE LET x == CHOOSE x \in S : TRUE
         IN  f[x] + SumOver(S \ {x}, f)

\* the requests sent for the revision of task i to target t
AttemptsOf(i, t) ==
    SumOver(TasksOf(i),
            [j \in Tasks |->
                Cardinality({k \in 1..Len(sent[j]) :
                               sent[j][k].payload.Type = t})])

\* C26: fire-once. In one run the review server is asked at most once for
\* each resolved revision, and at most one request goes to each target for
\* each resolved revision.
C26_FireOnce ==
    \A i \in Tasks :
        /\ SumOver(TasksOf(i), lookups) <= 1
        /\ AttemptsOf(i, "trybot") <= 1
        /\ AttemptsOf(i, "unity") <= 1

\* the same, counted for each task instead of each revision
FireOncePerTask ==
    \A i \in Tasks :
        /\ lookups[i] <= 1
        /\ Cardinality({k \in 1..Len(sent[i]) :
                           sent[i][k].payload.Type = "trybot"}) <= 1
        /\ Cardinality({k \in 1..Len(sent[i]) :
                           sent[i][k].payload.Type = "unity"}) <= 1

\* ------------------------------------------------------------------------
\* C28
\* ------------------------------------------------------------------------

\* a CL number: at least four digits, the first not 0
IsCLNumber(s) ==
    /\ Len(s) >= 4
    /\ s[1] \in Digits \ {"0"}
    /\ \A i \in 1..Len(s) : s[i] \in Digits

\* a Change-Id: I followed by 40 hexadecimal digits
IsChangeIdTrailer(s) ==
    /\ Len(s) = 41
    /\ s[1] = "I"
    /\ \A i \in 2..41 : s[i] \in HexLower

ChangeIDShaped(s) == IsCLNumber(s) \/ IsChangeIdTrailer(s)

\* C28: when some argument is shaped like a change ID and some argument is
\* not, in whichever order, run ends with the error "cannot mix change IDs
\* and git refs" before any git command, lookup or dispatch.
C28_MixRejected ==
    (/\ pc # "start"
     /\ \E i \in 1..Len(args) : ChangeIDShaped(args[i])
     /\ \E j \in 1..Len(args) : ~ChangeIDShaped(args[j]))
    => /\ pc = "done"
       /\ runErr = MixError
       /\ revs = <<>>
       /\ gitCalls = <<>>
       /\ NoLookups
       /\ NothingSent

\* ------------------------------------------------------------------------
\* C29
\* ------------------------------------------------------------------------

\* C29: a task sends to the unity repository only as its second request,
\* after a trybot request that succeeded; a task whose trybot request failed
\* has sent nothing else, and the collector holds exactly one error for it
\* once it is past Add.
C29_UnityAfterTrybot ==
    \A i \in Tasks :
        /\ \A k \in 1..Len(sent[i]) :
              ToUnity(i, k) => (k = 2 /\ ToTrybot(i, 1) /\ Delivered(i, 1))
        /\ Len(sent[i]) <= 2
        /\ (sent[i] # <<>> /\ ~Delivered(i, 1))
           => /\ Len(sent[i]) = 1
              /\ tpc[i] # "secondary"
              /\ i \in PastAdd
                 => /\ terr[i] # nil
                    /\ Occurrences(errs, terr[i])
                         = Cardinality({j \in PastAdd : terr[j] = terr[i]})
                    /\ Len(errs) = Cardinality({j \in PastAdd : terr[j] # nil})

\* with a unity repository configured and wanted, a task whose trybot
\* request failed finished with that one request and one error, next to a
\* task that delivered to both
C29_Witness ==
    /\ pc = "done"
    /\ UnityConfigured
    /\ ~flags.nounity
    /\ \E i \in Tasks :
          /\ Len(sent[i]) = 1
          /\ ~Delivered(i, 1)
          /\ Occurrences(errs, terr[i]) = 1
    /\ \E j \in Tasks :
          Len(sent[j]) = 2 /\ Delivered(j, 1) /\ Delivered(j, 2)
    /\ Len(errs) = 1

\* ------------------------------------------------------------------------
\* C30
\* ------------------------------------------------------------------------

\* C30: termination of the fan-out. When every call returns and goroutines
\* that can take a step are scheduled, run eventually returns; when it has
\* returned from triggerBuilds every task has signalled its completion and
\* the wait group is back at zero; and the wait group only goes down by
\* one, on the single completion signal of a task.
C30_FanOutTerminates ==
    /\ (pc = "builds") ~> (pc = "done")
    /\ [](pc = "done" => wg = 0 /\ \A i \in Tasks : tpc[i] = "finished")
    /\ [][wg' < wg
            => /\ wg' = wg - 1
               /\ \E i \in Tasks :
                     /\ tpc[i] = "signal" /\ tpc'[i] = "finished"
                     /\ \A j \in Tasks \ {i} : tpc'[j] = tpc[j]]_vars
    /\ [][\A i \in DOMAIN tpc : tpc[i] = "finished" => tpc'[i] = "finished"]_vars

\* triggerBuilds has returned after three tasks, one of them failed
C30_Witness ==
    /\ pc = "done"
    /\ Len(revs) = 3
    /\ wg = 0
    /\ \A i \in Tasks : tpc[i] = "finished"
    /\ \E i \in Tasks : terr[i] # nil

====
